---- MODULE Spec2Model ----
(***************************************************************************)
(* Document ingestion and text-extraction pipeline of the upload service.  *)
(*                                                                         *)
(* The model follows createDocumentRecord, processDocumentText,            *)
(* updateDocumentWithText and deleteDocument of the upload service, and    *)
(* extractText with its format extractors of the text-extraction service.  *)
(* Every database statement is one atomic step; an action is the landing   *)
(* of one awaited operation together with the synchronous JavaScript that  *)
(* follows it up to the next await.                                        *)
(***************************************************************************)
EXTENDS Integers, Sequences, FiniteSets, TLC

\* ------------------------------------------------------------------ bounds
\* documents ever created
MaxDocs == 2
\* processDocumentText invocations ever started
MaxInv == 2
\* deleteDocument calls ever made
MaxDel == 1
\* database statements that fail
MaxFaults == 1
\* uploads, processing requests, deletes and failed statements in one behaviour
MaxCalls == 2

DocIds == 1..MaxDocs
Invs == 1..MaxInv
Dels == 1..MaxDel

\* --------------------------------------------------------------- constants
NoRow == [absent |-> TRUE]
NoUser == "null"
UserIds == {NoUser, "u1"}
Callers == {NoUser, "u1", "u2"}

PDF == "application/pdf"
DOCX == "application/vnd.openxmlformats-officedocument.wordprocessingml.document"
MSWORD == "application/msword"
MARKDOWN == "text/markdown"
PLAIN == "text/plain"
RTF == "application/rtf"
PNG == "image/png"

\* texts are sequences of one-character strings
HiThere == <<"h", "i", " ", "t", "h", "e", "r", "e">>
HelloWorld == <<"H", "e", "l", "l", "o", " ", "W", "o", "r", "l", "d">>
Contents == {<<>>, HiThere}
Mimetypes == {PDF, DOCX, MARKDOWN, PLAIN, PNG}
SupportedFileTypes == {PDF, DOCX, MSWORD, PLAIN, MARKDOWN, RTF}
Files == {f \in [mimetype : Mimetypes, content : Contents] :
            f.content = <<>> => f.mimetype = PLAIN}

\* ------------------------------------------------- text-extraction-utils.ts
IsSpace(c) == c \in {" ", "\t", "\n", "\r"}

RECURSIVE TrimStart(_)
TrimStart(s) ==
  IF s = <<>> THEN <<>>
  ELSE IF IsSpace(Head(s)) THEN TrimStart(Tail(s)) ELSE s

RECURSIVE TrimEnd(_)
TrimEnd(s) ==
  IF s = <<>> THEN <<>>
  ELSE IF IsSpace(s[Len(s)]) THEN TrimEnd(SubSeq(s, 1, Len(s) - 1)) ELSE s

Trim(s) == TrimEnd(TrimStart(s))

\* String.prototype.split(/\s+/): the pieces between maximal whitespace runs,
\* the empty piece before a leading run and after a trailing run included
RECURSIVE SplitWs(_, _, _)
SplitWs(s, cur, inRun) ==
  IF s = <<>> THEN <<cur>>
  ELSE IF IsSpace(Head(s))
       THEN IF inRun THEN SplitWs(Tail(s), cur, TRUE)
            ELSE <<cur>> \o SplitWs(Tail(s), <<>>, TRUE)
       ELSE SplitWs(Tail(s), Append(cur, Head(s)), FALSE)

\* the word count as it would be without the filter of empty pieces
WordCount_unfiltered(text) == Len(SplitWs(Trim(text), <<>>, FALSE))

WordCount(text) ==
  Len(SelectSeq(SplitWs(Trim(text), <<>>, FALSE), LAMBDA w : Len(w) > 0))

CharacterCount(text) == Len(SelectSeq(text, LAMBDA c : ~IsSpace(c)))

\* calculateTextMetadata(text, additionalMeta): the counts, then the spread of
\* additionalMeta
calculateTextMetadata(text, additionalMeta) ==
  [k \in {"wordCount", "characterCount"} \cup DOMAIN additionalMeta |->
     IF k \in DOMAIN additionalMeta THEN additionalMeta[k]
     ELSE IF k = "wordCount" THEN WordCount(text) ELSE CharacterCount(text)]

\* ---------------------------------------------------------- safeAsync shape
Ok(data) == [success |-> TRUE, data |-> data]
Fail(message) == [success |-> FALSE, error |-> message]


\* ----------------------------------------------- text-extraction.service.ts
\* responses of the external OCR endpoint to one axios.post
OcrOkHello == [kind |-> "body", success |-> TRUE, extracted_text |-> HelloWorld,
               page_count |-> 2, execution_time_seconds |-> 3, language |-> "vi"]
OcrOkBare == [kind |-> "body", success |-> TRUE, extracted_text |-> <<>>,
              page_count |-> 0, execution_time_seconds |-> 0, language |-> ""]
OcrNotSuccess == [kind |-> "body", success |-> FALSE, message |-> "bad scan"]
OcrTimeout == [kind |-> "timeout"]
OcrHttpError == [kind |-> "http"]
OcrResponses == {OcrOkHello, OcrOkBare, OcrNotSuccess, OcrTimeout, OcrHttpError}
OcrFailures == {OcrNotSuccess, OcrTimeout, OcrHttpError}

\* outcomes of mammoth.extractRawText
ParserOkClean == [kind |-> "ok", value |-> HiThere, messages |-> <<>>]
ParserOkWarned == [kind |-> "ok", value |-> HiThere, messages |-> <<"unsupported element">>]
ParserThrows == [kind |-> "throws"]
ParserOutcomes == {ParserOkClean, ParserOkWarned, ParserThrows}

\* wall-clock milliseconds measured around the OCR call
ApiResponseTime == 7

\* a || b as it would be if a falsy left operand were kept
OrElse_keep(v, falsy, dflt) == v

\* a || b of JavaScript for the values used here
OrElse(v, falsy, dflt) == IF v = falsy THEN dflt ELSE v

OcrErrorMessage(resp) ==
  IF resp.kind = "timeout" THEN "timeout of ocrApiTimeout exceeded"
  ELSE IF resp.kind = "http" THEN "Request failed with status code 500"
  ELSE "OCR API failed: bad scan"

\* extractTextFromPDF as it would be if its catch block threw again
PdfFallback_rethrow(resp) == Fail(OcrErrorMessage(resp))

\* the catch block of extractTextFromPDF: the graceful fallback result
PdfFallback(resp) ==
  Ok([text |-> <<>>,
      metadata |-> [format |-> "pdf", wordCount |-> 0, characterCount |-> 0,
                    extractionMethod |-> "external-ocr-api",
                    apiResponseTime |-> ApiResponseTime,
                    warnings |-> << <<"External OCR API failed: ", OcrErrorMessage(resp)>> >>]])

extractTextFromPDF(buffer, resp) ==
  IF buffer = <<>> THEN Fail("PDF buffer is empty")
  ELSE IF resp.kind = "body" /\ resp.success
       THEN LET extractedText == resp.extracted_text
            IN  Ok([text |-> extractedText,
                    metadata |-> calculateTextMetadata(extractedText,
                      [pageCount |-> OrElse(resp.page_count, 0, 1),
                       format |-> "pdf",
                       extractionMethod |-> "external-ocr-api",
                       ocrProcessingTime |-> OrElse(resp.execution_time_seconds, 0, 0),
                       ocrLanguage |-> OrElse(resp.language, "", "en"),
                       apiResponseTime |-> ApiResponseTime])])
       ELSE PdfFallback(resp)

\* the number of calls as it would be if the request were sent a second time
OcrCallsOfPDF_again(buffer) == IF buffer = <<>> THEN 0 ELSE 2

\* number of axios.post calls extractTextFromPDF issues for a buffer
OcrCallsOfPDF(buffer) == IF buffer = <<>> THEN 0 ELSE 1

\* fetched: <<>> when fetchFileContent throws, <<buffer>> otherwise
extractTextFromDOCX(fetched, parser) ==
  IF fetched = <<>> THEN Fail("Failed to fetch file")
  ELSE IF parser.kind = "throws" THEN Fail("mammoth failed")
  ELSE LET text == parser.value
           warnings == parser.messages
       IN  Ok([text |-> text,
               metadata |-> calculateTextMetadata(text,
                 IF Len(warnings) > 0
                 THEN [format |-> "docx", warnings |-> warnings]
                 ELSE [format |-> "docx"])])

\* gray-matter on a content without a front-matter fence: no data, the content
\* itself as body (the contents enumerated here carry no fence)
Matter(content) == [data |-> <<>>, content |-> content]

extractTextFromMarkdown(content) ==
  IF content = <<>> THEN Fail("Markdown content is empty")
  ELSE LET parsed == Matter(content)
           frontMatterText == <<>>
           fullText == frontMatterText \o parsed.content
       IN  Ok([text |-> fullText,
               metadata |-> calculateTextMetadata(fullText, [format |-> "markdown"])])

\* extractTextFromTXT as it would be if it refused an empty content, as the
\* Markdown extractor does
extractTextFromTXT_refuseEmpty(content) ==
  IF content = <<>> THEN Fail("TXT content is empty")
  ELSE Ok([text |-> content,
           metadata |-> calculateTextMetadata(content, [format |-> "txt"])])

extractTextFromTXT(content) ==
  Ok([text |-> content,
      metadata |-> calculateTextMetadata(content, [format |-> "txt"])])

UnsupportedResult(fileType) ==
  Ok([text |-> <<>>,
      metadata |-> [format |-> "unsupported", wordCount |-> 0, characterCount |-> 0,
                    warnings |-> << <<"Unsupported file type: ", fileType>> >>]])

\* the switch of extractText as it would be without the case for msword
SwitchCase_noMsword(mimetype) ==
  IF mimetype = PDF THEN "pdf"
  ELSE IF mimetype = DOCX THEN "docx"
  ELSE IF mimetype = MARKDOWN THEN "markdown"
  ELSE IF mimetype \in {PLAIN, RTF} THEN "txt"
  ELSE "default"

\* the case of the switch of extractText that file.mimetype selects
SwitchCase(mimetype) ==
  IF mimetype = PDF THEN "pdf"
  ELSE IF mimetype \in {DOCX, MSWORD} THEN "docx"
  ELSE IF mimetype = MARKDOWN THEN "markdown"
  ELSE IF mimetype \in {PLAIN, RTF} THEN "txt"
  ELSE "default"

FetchThrew == [thrown |-> TRUE, extractor |-> "none", message |-> "Failed to fetch file"]

\* the switch of extractText: the extractor it calls and its ServiceResult, or
\* the throw of fetchFileContent (which leaves the dispatcher's safeAsync)
DispatchExtractor(mimetype, fetched, resp, parser) ==
  LET case == SwitchCase(mimetype)
  IN  IF case = "pdf"
      THEN IF fetched = <<>> THEN FetchThrew
           ELSE [thrown |-> FALSE, extractor |-> "extractTextFromPDF",
                 result |-> extractTextFromPDF(fetched[1], resp)]
      ELSE IF case = "docx"
      THEN [thrown |-> FALSE, extractor |-> "extractTextFromDOCX",
            result |-> extractTextFromDOCX(fetched, parser)]
      ELSE IF case = "markdown"
      THEN IF fetched = <<>> THEN FetchThrew
           ELSE [thrown |-> FALSE, extractor |-> "extractTextFromMarkdown",
                 result |-> extractTextFromMarkdown(fetched[1])]
      ELSE IF case = "txt"
      THEN IF fetched = <<>> THEN FetchThrew
           ELSE [thrown |-> FALSE, extractor |-> "extractTextFromTXT",
                 result |-> extractTextFromTXT(fetched[1])]
      ELSE [thrown |-> FALSE, extractor |-> "none",
            result |-> UnsupportedResult(mimetype)]

extractText(mimetype, fetched, resp, parser) ==
  LET d == DispatchExtractor(mimetype, fetched, resp, parser)
  IN  IF d.thrown THEN Fail(d.message)
      ELSE IF ~d.result.success
           THEN Ok([text |-> <<>>,
                    metadata |-> [format |-> "error", wordCount |-> 0,
                                  characterCount |-> 0,
                                  warnings |-> << <<"Extraction failed: ", d.result.error>> >>]])
           ELSE Ok(d.result.data)

\* number of OCR calls one extractText issues
OcrCallsOf(mimetype, fetched) ==
  IF SwitchCase(mimetype) = "pdf" /\ fetched # <<>>
  THEN OcrCallsOfPDF(fetched[1]) ELSE 0

\* ------------------------------------------------------------------- state
VARIABLES
  documents,    \* documentsTable: id -> row, NoRow when no row has the id
  processing,   \* documentProcessingTable: documentId -> its rows, in insert order
  blobs,        \* object storage: path -> <<content>>, <<>> when absent
  nextId,       \* number of rows inserted so far (ids are never reused)
  cd,           \* createDocumentRecord calls, by the id of the row they insert
  pdt,          \* processDocumentText invocations
  del,          \* deleteDocument calls
  faults,       \* database statements that failed so far
  statusWriter, \* history: who wrote the status last (0: createDocumentRecord)
  textWriter,   \* history: the invocation whose text update landed last (0: none)
  call          \* a call of the text-extraction service on its own (NoCall: none)

vars == <<documents, processing, blobs, nextId, cd, pdt, del, faults,
          statusWriter, textWriter, call>>

NoCall == [pc |-> "none"]

IdleCd == [pc |-> "idle"]
IdlePdt == [pc |-> "idle"]
IdleDel == [pc |-> "idle"]

Init ==
  /\ documents = [d \in DocIds |-> NoRow]
  /\ processing = [d \in DocIds |-> <<>>]
  /\ blobs = [d \in DocIds |-> <<>>]
  /\ nextId = 0
  /\ cd = [d \in DocIds |-> IdleCd]
  /\ pdt = [i \in Invs |-> IdlePdt]
  /\ del = [k \in Dels |-> IdleDel]
  /\ faults = 0
  /\ statusWriter = [d \in DocIds |-> 0]
  /\ textWriter = [d \in DocIds |-> 0]
  /\ call = NoCall

\* --------------------------------------------------------- database helpers
Exists(d) == documents[d] # NoRow

\* the status update as it would be if it also reset the recorded size
SetStatus_resetSize(docs, d, s) ==
  IF docs[d] = NoRow THEN docs
  ELSE [docs EXCEPT ![d].status = s, ![d].fileSize = 0]

\* UPDATE documents SET status = s WHERE id = d
SetStatus(docs, d, s) ==
  IF docs[d] = NoRow THEN docs ELSE [docs EXCEPT ![d].status = s]

\* the update of the processing rows as it would be without its WHERE clause
SetProcessing_everyRow(rows, d, stage, status) ==
  [e \in DOMAIN rows |->
     [k \in DOMAIN rows[e] |-> [stage |-> stage, status |-> status]]]

\* the update of the processing rows as it would be if it inserted a row when
\* the document has none
SetProcessing_upsert(rows, d, stage, status) ==
  IF rows[d] = <<>>
  THEN [rows EXCEPT ![d] = <<[stage |-> stage, status |-> status]>>]
  ELSE [rows EXCEPT ![d] = [k \in DOMAIN @ |-> [stage |-> stage, status |-> status]]]

\* UPDATE document_processing SET stage, status WHERE document_id = d
SetProcessing(rows, d, stage, status) ==
  [rows EXCEPT ![d] = [k \in DOMAIN @ |-> [stage |-> stage, status |-> status]]]

\* history of a status update by writer w: it counts when a row was hit
WroteStatus(d, w) ==
  statusWriter' = IF Exists(d) THEN [statusWriter EXCEPT ![d] = w] ELSE statusWriter

\* the cap on invocations: the background extraction of document d is
\* invocation d, and the requests take the others from the top
BackgroundInv(d) == d
RequestInvs == {i \in Invs : pdt[i].pc = "idle" /\ i > nextId}
RequestInv == CHOOSE i \in RequestInvs : \A j \in RequestInvs : i >= j

\* the cap on what one behaviour holds: calls of the service and failed statements
Calls ==
  nextId + Cardinality({i \in Invs : pdt[i].pc # "idle" /\ pdt[i].origin = "request"})
         + Cardinality({k \in Dels : del[k].pc # "idle"})
         + faults

\* outcomes of one database statement: TRUE it lands, FALSE it fails
DbOutcomes ==
  IF faults < MaxFaults /\ Calls < MaxCalls THEN {TRUE, FALSE} ELSE {TRUE}

\* an invocation as processDocumentText starts it: its select is in flight
StartedPdt(documentId, origin) ==
  [pc |-> "load", documentId |-> documentId, origin |-> origin, faulted |-> FALSE,
   ocrCalls |-> 0]

\* ------------------------------------------------------ upload.service.ts
extractFileType(mimetype) ==
  IF mimetype = PDF THEN "pdf"
  ELSE IF mimetype \in {DOCX, MSWORD} THEN "docx"
  ELSE IF mimetype = MARKDOWN THEN "md"
  ELSE IF mimetype \in {PLAIN, RTF} THEN "txt"
  ELSE "txt"

supportedTypes == {"pdf", "docx", "md", "txt"}

\* createDocumentRecord, up to the landing of the insert of the document row
CreateDocument(file, userId) ==
  /\ nextId < MaxDocs
  /\ Calls < MaxCalls
  /\ nextId + 1 \in Invs /\ pdt[nextId + 1].pc = "idle"
  /\ LET d == nextId + 1
         fileType == extractFileType(file.mimetype)
         row == [id |-> d, userId |-> userId, filename |-> d,
                 fileType |-> fileType, fileSize |-> Len(file.content),
                 uploadPath |-> d, status |-> "uploading",
                 metadata |-> [title |-> "t", mimetype |-> file.mimetype,
                               public_id |-> d, textExtraction |-> <<>>],
                 contentText |-> <<>>]
     IN  /\ nextId' = d
         /\ blobs' = [blobs EXCEPT ![d] = <<file.content>>]
         /\ documents' = [documents EXCEPT ![d] = row]
         /\ cd' = [cd EXCEPT ![d] = [pc |-> "insertProcessing", file |-> file,
                                     document |-> row, inv |-> 0,
                                     shouldExtractText |-> fileType \in supportedTypes]]
  /\ UNCHANGED call
  /\ UNCHANGED <<processing, pdt, del, faults, statusWriter, textWriter>>

\* the insert of the upload record lands; then the text extraction is started
\* without being awaited and the status update is issued
CdInsertProcessing(d) ==
  /\ cd[d].pc = "insertProcessing"
  /\ IF ~Exists(d)
     THEN \* document_id references documents.id: the insert is rejected and
          \* createDocumentRecord throws
          /\ cd' = [cd EXCEPT ![d].pc = "thrown"]
          /\ UNCHANGED <<processing, pdt>>
     ELSE /\ processing' = [processing EXCEPT ![d] =
                              Append(@, [stage |-> "upload", status |-> "success"])]
          /\ IF cd[d].shouldExtractText
             THEN /\ pdt' = [pdt EXCEPT ![BackgroundInv(d)] =
                                StartedPdt(d, "background")]
                  /\ cd' = [cd EXCEPT ![d].pc = "setStatus",
                                      ![d].inv = BackgroundInv(d)]
             ELSE /\ cd' = [cd EXCEPT ![d].pc = "setStatus"]
                  /\ UNCHANGED pdt
  /\ UNCHANGED call
  /\ UNCHANGED <<documents, blobs, nextId, del, faults, statusWriter, textWriter>>

\* the status createDocumentRecord writes after the upload record
CdStatus(d) == IF cd[d].shouldExtractText THEN "processing" ELSE "ready"

\* createDocumentRecord as it would be if it awaited the extraction it starts
CdMayProceed_awaiting(d) ==
  /\ cd[d].pc = "setStatus"
  /\ cd[d].shouldExtractText => pdt[cd[d].inv].pc = "done"

\* what createDocumentRecord waits for before its status update lands and it
\* returns: the upload record only, never the extraction it started
CdMayProceed(d) == cd[d].pc = "setStatus"

\* the status update lands and createDocumentRecord returns the inserted row
CdSetStatus(d) ==
  /\ CdMayProceed(d)
  /\ documents' = SetStatus(documents, d, CdStatus(d))
  /\ WroteStatus(d, 0)
  /\ cd' = [cd EXCEPT ![d].pc = "returned"]
  /\ UNCHANGED call
  /\ UNCHANGED <<processing, blobs, nextId, pdt, del, faults, textWriter>>

\* formatDocumentResponse(document): the fields of the row it is given
formatDocumentResponse(document) ==
  [id |-> document.id, filename |-> document.filename,
   fileType |-> document.fileType, fileSize |-> document.fileSize,
   status |-> OrElse(document.status, "", "ready"),
   uploadPath |-> document.uploadPath, metadata |-> document.metadata,
   isPublic |-> document.userId = NoUser]

\* what handlePublicUpload and handlePrivateUpload answer: the row that
\* createDocumentRecord returns is the one its insert returned
UploadResponse(d) == formatDocumentResponse(cd[d].document)

\* the mimetype processDocumentText rebuilds from the stored file type
MimetypeOf(fileType) ==
  IF fileType = "pdf" THEN PDF
  ELSE IF fileType = "docx" THEN DOCX
  ELSE IF fileType = "md" THEN MARKDOWN
  ELSE PLAIN

\* { extractedAt, ...metadata }
WithExtractedAt(metadata) ==
  [k \in {"extractedAt"} \cup DOMAIN metadata |->
     IF k \in DOMAIN metadata THEN metadata[k] ELSE "now"]

\* an on-demand call of processDocumentText (the processDocument endpoint)
ProcessDocumentText(documentId) ==
  /\ Calls < MaxCalls
  /\ RequestInvs # {}
  /\ pdt' = [pdt EXCEPT ![RequestInv] = StartedPdt(documentId, "request")]
  /\ UNCHANGED call
  /\ UNCHANGED <<documents, processing, blobs, nextId, cd, del, faults,
                 statusWriter, textWriter>>

\* a record without the fields the code no longer reads
Without(rec, fields) == [k \in DOMAIN rec \ fields |-> rec[k]]

\* how an invocation ends: the ServiceResult safeAsync hands to the caller
Finished(inv, result) ==
  Without([inv EXCEPT !.pc = "done"], {"textData", "currentMetadata", "err"})
    @@ [result |-> result]

\* the fields of the loaded row processDocumentText reads later on, and
\* whether the row was ready when it was loaded
Loaded(row) ==
  [fileType |-> row.fileType, uploadPath |-> row.uploadPath,
   wasReady |-> row.status = "ready"]

\* the throw of a failed statement that nothing catches: safeAsync reports it
Thrown(inv, message) ==
  Finished([inv EXCEPT !.faulted = TRUE], Fail(message))

\* a throw inside the try block: the catch block takes over
Caught(inv, message) == [inv EXCEPT !.pc = "catchReady"] @@ [err |-> message]

\* processDocumentText as it would be if an absent document gave an empty result
NotFound_empty ==
  Ok([text |-> <<>>, metadata |-> [format |-> "error", wordCount |-> 0,
                                   characterCount |-> 0]])

\* the throw for an absent document, as safeAsync reports it
NotFound == Fail("Document not found")

\* the select of the document lands
PdtLoad(i) ==
  /\ pdt[i].pc = "load"
  /\ LET d == pdt[i].documentId
     IN  IF ~Exists(d)
         THEN pdt' = [pdt EXCEPT ![i] =
                        Finished(@ @@ [document |-> NoRow], NotFound)]
         ELSE pdt' = [pdt EXCEPT ![i] =
                        [@ EXCEPT !.pc = "markExtract"] @@ [document |-> Loaded(documents[d])]]
  /\ UNCHANGED call
  /\ UNCHANGED <<documents, processing, blobs, nextId, cd, del, faults,
                 statusWriter, textWriter>>

\* the update of the processing rows to stage extract, status processing
PdtMarkExtract(i) ==
  /\ pdt[i].pc = "markExtract"
  /\ LET d == pdt[i].documentId
     IN  \E ok \in DbOutcomes :
           IF ok
           THEN /\ processing' = SetProcessing(processing, d, "extract", "processing")
                /\ pdt' = [pdt EXCEPT ![i].pc = "setProcessing"]
                /\ UNCHANGED faults
           ELSE /\ faults' = faults + 1
                /\ pdt' = [pdt EXCEPT ![i] = Thrown(@, "database error")]
                /\ UNCHANGED processing
  /\ UNCHANGED call
  /\ UNCHANGED <<documents, blobs, nextId, cd, del, statusWriter, textWriter>>

\* the update of the document status to processing
PdtSetProcessing(i) ==
  /\ pdt[i].pc = "setProcessing"
  /\ LET d == pdt[i].documentId
     IN  \E ok \in DbOutcomes :
           IF ok
           THEN /\ documents' = SetStatus(documents, d, "processing")
                /\ WroteStatus(d, i)
                /\ pdt' = [pdt EXCEPT ![i].pc = "extract"]
                /\ UNCHANGED faults
           ELSE /\ faults' = faults + 1
                /\ pdt' = [pdt EXCEPT ![i] = Thrown(@, "database error")]
                /\ UNCHANGED <<documents, statusWriter>>
  /\ UNCHANGED call
  /\ UNCHANGED <<processing, blobs, nextId, cd, del, textWriter>>

\* textExtractionService.extractText resolves: the fetch, the extractor and,
\* for a PDF, the OCR call have taken place
PdtExtract(i) ==
  /\ pdt[i].pc = "extract"
  /\ LET document == pdt[i].document
         mimetype == MimetypeOf(document.fileType)
     IN  \E fetchOk \in BOOLEAN,
            resp \in IF mimetype = PDF THEN OcrResponses ELSE {OcrTimeout},
            parser \in IF mimetype = DOCX THEN ParserOutcomes ELSE {ParserThrows} :
           LET fetched == IF fetchOk THEN blobs[document.uploadPath] ELSE <<>>
               calls == OcrCallsOf(mimetype, fetched)
               extractionResult == extractText(mimetype, fetched, resp, parser)
               seen == [pdt[i] EXCEPT !.ocrCalls = calls]
                         @@ [ocr |-> IF calls > 0 THEN resp ELSE [kind |-> "none"]]
           IN  IF ~extractionResult.success
               THEN pdt' = [pdt EXCEPT ![i] =
                              Caught(seen, <<"Text extraction failed: ",
                                             extractionResult.error>>)]
               ELSE pdt' = [pdt EXCEPT ![i] =
                              [seen EXCEPT !.pc = "udwtSelect"]
                                @@ [textData |-> extractionResult.data]]
  /\ UNCHANGED call
  /\ UNCHANGED <<documents, processing, blobs, nextId, cd, del, faults,
                 statusWriter, textWriter>>

\* updateDocumentWithText: the select of the current document lands
PdtUdwtSelect(i) ==
  /\ pdt[i].pc = "udwtSelect"
  /\ LET d == pdt[i].documentId
     IN  IF ~Exists(d)
         THEN pdt' = [pdt EXCEPT ![i] =
                        Caught(@, <<"Failed to update document with text: ",
                                    "Document not found">>)]
         ELSE pdt' = [pdt EXCEPT ![i] =
                        [@ EXCEPT !.pc = "udwtWrite"]
                          @@ [currentMetadata |-> documents[d].metadata]]
  /\ UNCHANGED call
  /\ UNCHANGED <<documents, processing, blobs, nextId, cd, del, faults,
                 statusWriter, textWriter>>

\* updateDocumentWithText as it would be if it kept a text already stored
UdwtRow_keep(row, currentMetadata, text, metadata) ==
  IF row.contentText # <<>> THEN row
  ELSE [row EXCEPT !.contentText = <<text>>,
                   !.metadata = [currentMetadata EXCEPT
                                   !.textExtraction = <<WithExtractedAt(metadata)>>]]

\* updateDocumentWithText as it would be if its update set the text alone
UdwtRow_textOnly(row, currentMetadata, text, metadata) ==
  [row EXCEPT !.contentText = <<text>>]

\* updateDocumentWithText as it would be if it rebuilt the metadata and lost
\* the title
UdwtRow_dropTitle(row, currentMetadata, text, metadata) ==
  [row EXCEPT !.contentText = <<text>>,
              !.metadata = [currentMetadata EXCEPT
                              !.textExtraction = <<WithExtractedAt(metadata)>>,
                              !.title = ""]]

\* the row updateDocumentWithText writes over the row it finds
UdwtRow(row, currentMetadata, text, metadata) ==
  [row EXCEPT !.contentText = <<text>>,
              !.metadata = [currentMetadata EXCEPT
                              !.textExtraction = <<WithExtractedAt(metadata)>>]]

\* updateDocumentWithText: the update of contentText and metadata lands
PdtUdwtWrite(i) ==
  /\ pdt[i].pc = "udwtWrite"
  /\ LET d == pdt[i].documentId
         textData == pdt[i].textData
     IN  \E ok \in DbOutcomes :
           IF ok
           THEN /\ documents' =
                     IF Exists(d)
                     THEN [documents EXCEPT ![d] =
                             UdwtRow(@, pdt[i].currentMetadata, textData.text,
                                     textData.metadata)]
                     ELSE documents
                /\ textWriter' = IF Exists(d) THEN [textWriter EXCEPT ![d] = i]
                                 ELSE textWriter
                /\ pdt' = [pdt EXCEPT ![i] =
                             Without([@ EXCEPT !.pc = "setReady"], {"currentMetadata"})]
                /\ UNCHANGED faults
           ELSE /\ faults' = faults + 1
                /\ pdt' = [pdt EXCEPT ![i] =
                             Caught([@ EXCEPT !.faulted = TRUE],
                                    <<"Failed to update document with text: ",
                                      "database error">>)]
                /\ UNCHANGED <<documents, textWriter>>
  /\ UNCHANGED call
  /\ UNCHANGED <<processing, blobs, nextId, cd, del, statusWriter>>

\* the update of the document status to ready, after the text update
PdtSetReady(i) ==
  /\ pdt[i].pc = "setReady"
  /\ LET d == pdt[i].documentId
     IN  \E ok \in DbOutcomes :
           IF ok
           THEN /\ documents' = SetStatus(documents, d, "ready")
                /\ WroteStatus(d, i)
                /\ pdt' = [pdt EXCEPT ![i].pc = "markSuccess"]
                /\ UNCHANGED faults
           ELSE /\ faults' = faults + 1
                /\ pdt' = [pdt EXCEPT ![i] =
                             Caught([@ EXCEPT !.faulted = TRUE], <<"database error">>)]
                /\ UNCHANGED <<documents, statusWriter>>
  /\ UNCHANGED call
  /\ UNCHANGED <<processing, blobs, nextId, cd, del, textWriter>>

\* the update of the processing rows to status success; textData is returned
PdtMarkSuccess(i) ==
  /\ pdt[i].pc = "markSuccess"
  /\ LET d == pdt[i].documentId
     IN  \E ok \in DbOutcomes :
           IF ok
           THEN /\ processing' = SetProcessing(processing, d, "extract", "success")
                /\ pdt' = [pdt EXCEPT ![i] = Finished(@, Ok(pdt[i].textData))]
                /\ UNCHANGED faults
           ELSE /\ faults' = faults + 1
                /\ pdt' = [pdt EXCEPT ![i] =
                             Caught([@ EXCEPT !.faulted = TRUE], <<"database error">>)]
                /\ UNCHANGED processing
  /\ UNCHANGED call
  /\ UNCHANGED <<documents, blobs, nextId, cd, del, statusWriter, textWriter>>

\* the catch block as it would be if it marked the document as failed
CatchStatus_error == "error"

\* the status the catch block of processDocumentText writes
CatchStatus == "ready"

\* the catch block as it would be if it threw the error again
CatchReturn_rethrow(message) == Fail(message)

\* what the catch block hands to safeAsync after its status update
CatchReturn(message) ==
  Ok([text |-> <<>>,
      metadata |-> [format |-> "error", wordCount |-> 0, characterCount |-> 0,
                    warnings |-> << <<"Text extraction failed: ", message>> >>]])

\* the catch block: the update of the document status lands
PdtCatchReady(i) ==
  /\ pdt[i].pc = "catchReady"
  /\ LET d == pdt[i].documentId
     IN  \E ok \in DbOutcomes :
           IF ok
           THEN /\ documents' = SetStatus(documents, d, CatchStatus)
                /\ WroteStatus(d, i)
                /\ pdt' = [pdt EXCEPT ![i] = Finished(@, CatchReturn(pdt[i].err))]
                /\ UNCHANGED faults
           ELSE /\ faults' = faults + 1
                /\ pdt' = [pdt EXCEPT ![i] = Thrown(@, "database error")]
                /\ UNCHANGED <<documents, statusWriter>>
  /\ UNCHANGED call
  /\ UNCHANGED <<processing, blobs, nextId, cd, del, textWriter>>

\* a call of deleteDocument: its select is in flight
DeleteDocument(k, documentId, userId) ==
  /\ del[k].pc = "idle"
  /\ Calls < MaxCalls
  /\ del' = [del EXCEPT ![k] = [pc |-> "select", documentId |-> documentId,
                                userId |-> userId]]
  /\ UNCHANGED call
  /\ UNCHANGED <<documents, processing, blobs, nextId, cd, pdt, faults,
                 statusWriter, textWriter>>

\* a single select of the document: null when no row has the id
getDocumentById(documentId) ==
  IF ~Exists(documentId) THEN Ok(NoRow)
  ELSE Ok(documents[documentId]
            @@ [isPublic |-> documents[documentId].userId = NoUser])

\* deleteDocument as it would be if it turned away a document being processed
Forbidden_whileProcessing(row, userId) ==
  (userId # NoUser /\ row.userId # userId) \/ row.status = "processing"

\* the permission test as it would be if a document without an owner were
\* open to every caller
Forbidden_publicOpen(row, userId) ==
  userId # NoUser /\ row.userId # NoUser /\ row.userId # userId

\* the permission test of deleteDocument: a caller with a user id that is not
\* the owner's
Forbidden(row, userId) == userId # NoUser /\ row.userId # userId

\* the select lands: 404, 403, or on to the removal of the stored file
DelSelect(k) ==
  /\ del[k].pc = "select"
  /\ LET d == del[k].documentId
         userId == del[k].userId
     IN  IF ~Exists(d)
         THEN del' = [del EXCEPT ![k] = [@ EXCEPT !.pc = "done"]
                        @@ [result |-> [success |-> FALSE, status |-> 404]]]
         ELSE IF Forbidden(documents[d], userId)
         THEN del' = [del EXCEPT ![k] = [@ EXCEPT !.pc = "done"]
                        @@ [result |-> [success |-> FALSE, status |-> 403]]]
         ELSE del' = [del EXCEPT ![k] = [@ EXCEPT !.pc = "cloudinary"]
                        @@ [publicId |-> documents[d].metadata.public_id]]
  /\ UNCHANGED call
  /\ UNCHANGED <<documents, processing, blobs, nextId, cd, pdt, faults,
                 statusWriter, textWriter>>

\* deleteFromCloudinary resolves: the file is destroyed, or the call gave up
DelCloudinary(k) ==
  /\ del[k].pc = "cloudinary"
  /\ \E destroyed \in BOOLEAN :
       blobs' = IF destroyed THEN [blobs EXCEPT ![del[k].publicId] = <<>>] ELSE blobs
  /\ del' = [del EXCEPT ![k].pc = "delProcessing"]
  /\ UNCHANGED call
  /\ UNCHANGED <<documents, processing, nextId, cd, pdt, faults,
                 statusWriter, textWriter>>

\* the delete of the processing rows lands
DelProcessing(k) ==
  /\ del[k].pc = "delProcessing"
  /\ processing' = [processing EXCEPT ![del[k].documentId] = <<>>]
  /\ del' = [del EXCEPT ![k].pc = "delDocument"]
  /\ UNCHANGED call
  /\ UNCHANGED <<documents, blobs, nextId, cd, pdt, faults, statusWriter, textWriter>>

\* the delete of the document row lands; the processing rows that reference
\* it go with it (onDelete: cascade)
DelDocument(k) ==
  /\ del[k].pc = "delDocument"
  /\ documents' = [documents EXCEPT ![del[k].documentId] = NoRow]
  /\ processing' = [processing EXCEPT ![del[k].documentId] = <<>>]
  /\ del' = [del EXCEPT ![k] = [@ EXCEPT !.pc = "done"]
               @@ [result |-> [success |-> TRUE]]]
  /\ UNCHANGED call
  /\ UNCHANGED <<blobs, nextId, cd, pdt, faults, statusWriter, textWriter>>

\* ------------------------------------------------------------ specification
Next ==
  \/ \E file \in Files, userId \in UserIds : CreateDocument(file, userId)
  \/ \E d \in DocIds : CdInsertProcessing(d)
  \/ \E d \in DocIds : CdSetStatus(d)
  \/ \E d \in DocIds : ProcessDocumentText(d)
  \/ \E i \in Invs : PdtLoad(i)
  \/ \E i \in Invs : PdtMarkExtract(i)
  \/ \E i \in Invs : PdtSetProcessing(i)
  \/ \E i \in Invs : PdtExtract(i)
  \/ \E i \in Invs : PdtUdwtSelect(i)
  \/ \E i \in Invs : PdtUdwtWrite(i)
  \/ \E i \in Invs : PdtSetReady(i)
  \/ \E i \in Invs : PdtMarkSuccess(i)
  \/ \E i \in Invs : PdtCatchReady(i)
  \/ \E k \in Dels, d \in DocIds, userId \in Callers : DeleteDocument(k, d, userId)
  \/ \E k \in Dels : DelSelect(k)
  \/ \E k \in Dels : DelCloudinary(k)
  \/ \E k \in Dels : DelProcessing(k)
  \/ \E k \in Dels : DelDocument(k)

Spec == Init /\ [][Next]_vars

\* -------------------------------------- the text-extraction service on its own
\* contents a fetch can deliver: empty, plain words, whitespace only, and words
\* with leading, doubled and trailing whitespace
Blank == <<"\t", " ">>
Spaced == <<" ", "a", " ", " ", "b", "c", "\n">>
Texts == {<<>>, HiThere, Blank, Spaced}

\* an OCR response whose text carries irregular whitespace, and a parser
\* outcome without a value
OcrOkSpaced == [kind |-> "body", success |-> TRUE, extracted_text |-> Spaced,
                page_count |-> 1, execution_time_seconds |-> 2, language |-> "en"]
ParserOkEmpty == [kind |-> "ok", value |-> <<>>, messages |-> <<>>]

DeclaredMimetypes == {PDF, DOCX, MSWORD, MARKDOWN, PLAIN, RTF, PNG}

\* the calls of extractText(file): the declared content type, what
\* fetchFileContent delivers (<<>>: it throws), the OCR response and the parser
\* outcome; an input the selected branch never reads takes one value only
ExtractTextCalls ==
  {c \in [pc : {"pending"}, fn : {"extractText"}, mimetype : DeclaredMimetypes,
          fetched : {<<>>} \cup {<<t>> : t \in Texts},
          resp : OcrResponses \cup {OcrOkSpaced},
          parser : ParserOutcomes \cup {ParserOkEmpty}] :
     /\ (c.mimetype # PDF \/ c.fetched \in {<<>>, << <<>> >>}) => c.resp = OcrTimeout
     /\ (c.mimetype \notin {DOCX, MSWORD} \/ c.fetched = <<>>) => c.parser = ParserThrows
     /\ c.mimetype \notin SupportedFileTypes => c.fetched = <<>>}

\* the calls of extractTextFromTXT(content)
ExtractTextFromTXTCalls ==
  [pc : {"pending"}, fn : {"extractTextFromTXT"}, content : Texts]

\* no upload, no invocation, no delete: the service is called on its own
InitService ==
  /\ documents = [d \in DocIds |-> NoRow]
  /\ processing = [d \in DocIds |-> <<>>]
  /\ blobs = [d \in DocIds |-> <<>>]
  /\ nextId = 0
  /\ cd = [d \in DocIds |-> IdleCd]
  /\ pdt = [i \in Invs |-> IdlePdt]
  /\ del = [k \in Dels |-> IdleDel]
  /\ faults = 0
  /\ statusWriter = [d \in DocIds |-> 0]
  /\ textWriter = [d \in DocIds |-> 0]
  /\ call \in ExtractTextCalls \cup ExtractTextFromTXTCalls

\* extractText(file) resolves
ExtractTextCall ==
  /\ call.pc = "pending" /\ call.fn = "extractText"
  /\ call' = [call EXCEPT !.pc = "returned"]
               @@ [result |-> extractText(call.mimetype, call.fetched, call.resp,
                                          call.parser),
                   extractor |-> DispatchExtractor(call.mimetype, call.fetched,
                                                   call.resp, call.parser).extractor,
                   ocrCalls |-> OcrCallsOf(call.mimetype, call.fetched)]
  /\ UNCHANGED <<documents, processing, blobs, nextId, cd, pdt, del, faults,
                 statusWriter, textWriter>>

\* extractTextFromTXT(content) resolves
ExtractTextFromTXTCall ==
  /\ call.pc = "pending" /\ call.fn = "extractTextFromTXT"
  /\ call' = [call EXCEPT !.pc = "returned"]
               @@ [result |-> extractTextFromTXT(call.content)]
  /\ UNCHANGED <<documents, processing, blobs, nextId, cd, pdt, del, faults,
                 statusWriter, textWriter>>

NextService == ExtractTextCall \/ ExtractTextFromTXTCall

SpecService == InitService /\ [][NextService]_vars

\* ------------------------------------------------------------------ claims
SupportedMimetypes == {PDF, DOCX, MSWORD, MARKDOWN, PLAIN, RTF}

Done(i) == pdt[i].pc = "done"
\* invocation i found its document when it loaded it
Found(i) == pdt[i].pc \notin {"idle", "load"} /\ pdt[i].document # NoRow
\* no other invocation is at work on the document of invocation i
Alone(i) ==
  \A j \in Invs \ {i} :
    pdt[j].pc \in {"idle", "done"} \/ pdt[j].documentId # pdt[i].documentId
\* the catch block of processDocumentText produced the result of invocation i
ViaCatch(i) ==
  /\ Done(i) /\ pdt[i].result.success
  /\ pdt[i].result.data.metadata.format = "error"
  /\ pdt[i].result.data.metadata.warnings[1][1] = "Text extraction failed: "
NoProcessingRow(d) ==
  \A k \in DOMAIN processing[d] : processing[d][k].status # "processing"
NoExtractRow(d) ==
  \A k \in DOMAIN processing[d] : processing[d][k].stage # "extract"
TextOf(d) == documents[d].contentText
\* the stored text is t (a text never stored reads as the empty text)
StoredTextIs(d, t) == TextOf(d) = <<t>> \/ (t = <<>> /\ TextOf(d) = <<>>)
\* createDocument has returned for document d
Returned(d) == cd[d].pc = "returned"
TextExtractionOf(d) == documents[d].metadata.textExtraction

\* C1: in every reachable state the status of every stored document is one of
\* uploading, processing, ready; no extraction outcome stores failed or error.
C1_StatusNeverFailed ==
  \A d \in DocIds :
    Exists(d) => documents[d].status \in {"uploading", "processing", "ready"}

\* C1 witness: an invocation whose extraction failed has completed through the
\* catch block and its document is stored with status ready.
C1_Witness ==
  \E i \in Invs :
    /\ ViaCatch(i) /\ Found(i) /\ Exists(pdt[i].documentId)
    /\ statusWriter[pdt[i].documentId] = i
    /\ documents[pdt[i].documentId].status = "ready"

\* C2: once createDocument has returned for a supported format and the
\* background invocation it started has completed (no failed statement, no
\* other invocation, no delete), the stored status is ready.
C2_BackgroundLeavesReady ==
  \A d \in DocIds :
    ( /\ cd[d].pc = "returned"
      /\ cd[d].file.mimetype \in SupportedMimetypes
      /\ cd[d].inv # 0 /\ Done(cd[d].inv) /\ ~pdt[cd[d].inv].faulted
      /\ \A j \in Invs \ {cd[d].inv} : pdt[j].pc = "idle" \/ pdt[j].documentId # d
      /\ \A k \in Dels : del[k].pc = "idle" \/ del[k].documentId # d
      /\ Exists(d) )
    => documents[d].status = "ready"

\* C3: for a supported format, whenever createDocument has started the
\* extraction and has its status update left to do, it can do it and return:
\* nothing about the invocation it started holds it back.
C3_ReturnNotHeldBack ==
  \A d \in DocIds :
    (cd[d].pc = "setStatus" /\ cd[d].file.mimetype \in SupportedMimetypes)
      => ENABLED CdSetStatus(d)

\* C3 witness: createDocument has returned while the invocation it started
\* has not completed.
C3_Witness ==
  \E d \in DocIds :
    /\ cd[d].pc = "returned" /\ cd[d].file.mimetype \in SupportedMimetypes
    /\ cd[d].inv # 0 /\ pdt[cd[d].inv].pc \notin {"idle", "done"}

\* C4: an invocation in which no database statement failed ends with a
\* (text, metadata) result when it found its document, whatever the fetch, the
\* dispatcher and the OCR call did, and with NotFound when it found none.
C4_OnlyNotFoundReported ==
  \A i \in Invs :
    (Done(i) /\ ~pdt[i].faulted) =>
      IF pdt[i].document = NoRow
      THEN ~pdt[i].result.success /\ pdt[i].result.error = "Document not found"
      ELSE /\ pdt[i].result.success
           /\ {"text", "metadata"} \subseteq DOMAIN pdt[i].result.data

\* C4 witness: an invocation that found its document and whose storage fetch
\* failed has completed with a successful result.
C4_Witness ==
  \E i \in Invs :
    /\ ViaCatch(i) /\ Found(i) /\ ~pdt[i].faulted
    /\ pdt[i].result.data.metadata.warnings[1][2]
         = <<"Text extraction failed: ", "Failed to fetch file">>

\* C5: an invocation on a PDF whose OCR call failed (timeout, non-2xx, success
\* = false), with no failed database statement and its document still stored,
\* returns text "", format pdf, zero counts and a warning, and the status it
\* leaves is ready.
C5_OcrFailureDegrades ==
  \A i \in Invs :
    ( /\ Done(i) /\ ~pdt[i].faulted /\ Found(i)
      /\ pdt[i].ocr \in OcrFailures
      /\ Exists(pdt[i].documentId) )
    => /\ pdt[i].result.success
       /\ pdt[i].result.data.text = <<>>
       /\ pdt[i].result.data.metadata.format = "pdf"
       /\ pdt[i].result.data.metadata.wordCount = 0
       /\ pdt[i].result.data.metadata.characterCount = 0
       /\ Len(pdt[i].result.data.metadata.warnings) > 0
       /\ statusWriter[pdt[i].documentId] = i
            => documents[pdt[i].documentId].status = "ready"

\* C5 witness: an invocation whose OCR call timed out has completed and was
\* the last to write the status of its stored PDF document.
C5_Witness ==
  \E i \in Invs :
    /\ Done(i) /\ ~pdt[i].faulted /\ Found(i)
    /\ pdt[i].document.fileType = "pdf"
    /\ pdt[i].ocr = OcrTimeout
    /\ Exists(pdt[i].documentId)
    /\ statusWriter[pdt[i].documentId] = i

\* C6: after an invocation whose extraction failed (alone on its document, no
\* failed statement), the stored document has status ready, empty text and a
\* stored extraction metadata with format error and a warning.
C6_FailureIsPersisted ==
  \A i \in Invs :
    ( /\ Done(i) /\ ~pdt[i].faulted /\ Found(i) /\ Alone(i)
      /\ pdt[i].result.success
      /\ pdt[i].result.data.metadata.format = "error"
      /\ Exists(pdt[i].documentId) /\ Returned(pdt[i].documentId)
      /\ statusWriter[pdt[i].documentId] = i )
    => LET d == pdt[i].documentId
       IN  /\ documents[d].status = "ready"
           /\ StoredTextIs(d, <<>>)
           /\ TextExtractionOf(d) # <<>>
           /\ TextExtractionOf(d)[1].format = "error"
           /\ Len(TextExtractionOf(d)[1].warnings) > 0

\* C7: when an invocation started on a ready document has completed (alone on
\* its document, no failed statement), the status is ready again and the stored
\* text and extraction metadata are the ones this invocation returned.
C7_ReprocessingOverwrites ==
  \A i \in Invs :
    ( /\ Done(i) /\ ~pdt[i].faulted /\ Found(i) /\ Alone(i)
      /\ pdt[i].document.wasReady
      /\ Exists(pdt[i].documentId) /\ Returned(pdt[i].documentId)
      /\ statusWriter[pdt[i].documentId] = i )
    => LET d == pdt[i].documentId
       IN  /\ documents[d].status = "ready"
           /\ StoredTextIs(d, pdt[i].result.data.text)
           /\ TextExtractionOf(d) = <<WithExtractedAt(pdt[i].result.data.metadata)>>

\* C8: for an invocation alone on its document that has set the status to
\* processing, a state in which the status is no longer processing shows no
\* processing row still marked processing and shows this invocation's text.
C8_WritesSeenAsUnit ==
  \A i \in Invs :
    ( /\ pdt[i].pc \in {"extract", "udwtSelect", "udwtWrite", "setReady",
                        "markSuccess", "catchReady", "done"}
      /\ Found(i) /\ ~pdt[i].faulted /\ Alone(i)
      /\ Exists(pdt[i].documentId) /\ Returned(pdt[i].documentId)
      /\ statusWriter[pdt[i].documentId] = i
      /\ documents[pdt[i].documentId].status # "processing" )
    => /\ NoProcessingRow(pdt[i].documentId)
       /\ textWriter[pdt[i].documentId] = i

\* C9: when two invocations on the same stored document have both completed
\* (no failed statement), the status, if one of them wrote it last, is ready,
\* and the stored text is the text returned by the one whose text update
\* landed last.
C9_LastWriteWins ==
  \A i, j \in Invs :
    ( /\ i # j /\ Done(i) /\ Done(j) /\ Found(i) /\ Found(j)
      /\ pdt[i].documentId = pdt[j].documentId
      /\ ~pdt[i].faulted /\ ~pdt[j].faulted
      /\ Exists(pdt[i].documentId) )
    => LET d == pdt[i].documentId
       IN  /\ statusWriter[d] \in {i, j} => documents[d].status = "ready"
           /\ textWriter[d] \in {i, j} =>
                TextOf(d) = <<pdt[textWriter[d]].result.data.text>>

\* C9 witness: two invocations on one document have interleaved and completed:
\* one wrote the text last, the other wrote the status last, and the texts
\* they returned differ.
C9_Witness ==
  \E i, j \in Invs :
    /\ i # j /\ Done(i) /\ Done(j) /\ Found(i) /\ Found(j)
    /\ pdt[i].documentId = pdt[j].documentId
    /\ ~pdt[i].faulted /\ ~pdt[j].faulted
    /\ Exists(pdt[i].documentId)
    /\ textWriter[pdt[i].documentId] = i
    /\ statusWriter[pdt[i].documentId] = j
    /\ pdt[i].result.success /\ pdt[j].result.success
    /\ pdt[i].result.data.text # pdt[j].result.data.text

\* C10: for an upload whose content type is not a supported format,
\* createDocument leaves the status ready, starts no invocation, and the
\* document has no processing row with stage extract.
C10_UnsupportedSkipsExtraction ==
  \A d \in DocIds :
    ( /\ cd[d].pc = "returned"
      /\ cd[d].file.mimetype \notin SupportedMimetypes
      /\ \A j \in Invs : pdt[j].pc = "idle" \/ pdt[j].origin = "background"
      /\ \A k \in Dels : del[k].pc = "idle" )
    => /\ cd[d].inv = 0
       /\ Exists(d) /\ documents[d].status = "ready"
       /\ NoExtractRow(d)

\* the call of extractText has returned
Dispatched == call.pc = "returned" /\ call.fn = "extractText"

\* C11: every call of extractText, for every declared content type and every
\* outcome of the fetch and of the extractor, returns a successful result whose
\* metadata has wordCount, characterCount and format; it never returns a
\* failure.
C11_DispatcherNeverFails ==
  Dispatched =>
    /\ call.result.success
    /\ {"wordCount", "characterCount", "format"}
         \subseteq DOMAIN call.result.data.metadata

\* C12: an invocation in which a database write failed (the text update, a
\* status update or a processing-row update) ends by reporting a failure to
\* its caller, never a successful result.
C12_PersistenceFailurePropagates ==
  \A i \in Invs :
    (Done(i) /\ pdt[i].faulted) => ~pdt[i].result.success

\* C13: the step in which an invocation finds no document with its id ends the
\* invocation with the NotFound failure and changes no document row and no
\* processing row; a completed invocation takes no further step.
C13_NotFoundWritesNothing ==
  [][\A i \in Invs :
       /\ (pdt[i].pc = "load" /\ pdt'[i].pc # "load" /\ ~Exists(pdt[i].documentId))
            => /\ pdt'[i].pc = "done"
               /\ ~pdt'[i].result.success
               /\ pdt'[i].result.error = "Document not found"
               /\ documents' = documents
               /\ processing' = processing
       /\ Done(i) => pdt'[i] = pdt[i]]_vars

\* C13 witness: an invocation on an absent id has completed while another
\* document and its processing row are stored.
C13_Witness ==
  \E i \in Invs :
    /\ Done(i) /\ pdt[i].document = NoRow
    /\ \E d \in DocIds : Exists(d) /\ processing[d] # <<>>

\* C14: in every state a stored document is returned by getDocumentById, and a
\* deleteDocument call by the owner or without a user id whose select finds
\* the row goes on to delete it, whatever the status and whatever invocations
\* are in flight or have failed; the stages of the delete are never held back
\* and a successful delete leaves no row.
C14_AlwaysRetrievableAndDeletable ==
  /\ [](\A d \in DocIds :
          Exists(d) => /\ getDocumentById(d).success
                       /\ getDocumentById(d).data # NoRow
                       /\ getDocumentById(d).data.id = d)
  /\ [][\A k \in Dels :
          ( /\ del[k].pc = "select" /\ del'[k].pc # "select"
            /\ Exists(del[k].documentId)
            /\ \/ del[k].userId = NoUser
               \/ del[k].userId = documents[del[k].documentId].userId )
          => del'[k].pc = "cloudinary"]_vars
  /\ [](\A k \in Dels :
          /\ del[k].pc = "cloudinary" => ENABLED DelCloudinary(k)
          /\ del[k].pc = "delProcessing" => ENABLED DelProcessing(k)
          /\ del[k].pc = "delDocument" => ENABLED DelDocument(k)
          /\ (del[k].pc = "done" /\ del[k].result.success)
               => ~Exists(del[k].documentId) /\ processing[del[k].documentId] = <<>>)

\* C14 witness: a document has been deleted while an invocation on it was in
\* flight, past its load.
C14_Witness ==
  \E k \in Dels, i \in Invs :
    /\ del[k].pc = "done" /\ del[k].result.success
    /\ pdt[i].pc \notin {"idle", "load", "done"}
    /\ pdt[i].documentId = del[k].documentId

\* C15: for a plain-text upload, the document handed back to the caller of
\* createDocument carries status ready.
C15_PlainTextReturnedReady ==
  \A d \in DocIds :
    (Returned(d) /\ cd[d].file.mimetype = PLAIN)
      => UploadResponse(d).status = "ready"

\* the counting rule of the specification, computed from positions: a token
\* starts at every non-whitespace character that is first or follows whitespace
TokenCount(text) ==
  Cardinality({p \in 1..Len(text) :
                 ~IsSpace(text[p]) /\ (p = 1 \/ IsSpace(text[p - 1]))})
NonSpaceCount(text) == Cardinality({p \in 1..Len(text) : ~IsSpace(text[p])})

\* C16: every successful result of the extraction service, degraded results
\* included, reports the wordCount and characterCount that the counting rule
\* gives for the text it returns.
C16_CountsMatchText ==
  (call.pc = "returned" /\ call.result.success)
    => /\ call.result.data.metadata.wordCount = TokenCount(call.result.data.text)
       /\ call.result.data.metadata.characterCount
            = NonSpaceCount(call.result.data.text)

\* C16 witness: a PDF extraction has returned a text with leading, doubled and
\* trailing whitespace, counted as 2 words and 3 characters.
C16_Witness ==
  /\ Dispatched /\ call.mimetype = PDF /\ call.result.success
  /\ call.result.data.text = Spaced
  /\ call.result.data.metadata.wordCount = 2
  /\ call.result.data.metadata.characterCount = 3

\* the dispatch table of the specification
DispatchTable ==
  [m \in SupportedFileTypes |->
     IF m = PDF THEN "extractTextFromPDF"
     ELSE IF m \in {DOCX, MSWORD} THEN "extractTextFromDOCX"
     ELSE IF m = MARKDOWN THEN "extractTextFromMarkdown"
     ELSE "extractTextFromTXT"]

\* C17: extractText calls the extractor the dispatch table gives for the
\* declared content type, and no other (none at all when its own fetch threw);
\* the PDF extractor is the one that issues the OCR call; for any other content
\* type it calls no extractor and no OCR and returns a successful result with
\* empty text, zero counts and a warning.
C17_DispatchByContentType ==
  Dispatched =>
    IF call.mimetype \in SupportedFileTypes
    THEN /\ call.extractor \in {DispatchTable[call.mimetype], "none"}
         /\ call.extractor = "none" => call.fetched = <<>>
         /\ (call.fetched # <<>> \/ call.mimetype \in {DOCX, MSWORD})
              => call.extractor = DispatchTable[call.mimetype]
         /\ call.ocrCalls > 0 => call.extractor = "extractTextFromPDF"
    ELSE /\ call.extractor = "none" /\ call.ocrCalls = 0
         /\ call.result.success
         /\ call.result.data.text = <<>>
         /\ call.result.data.metadata.wordCount = 0
         /\ call.result.data.metadata.characterCount = 0
         /\ Len(call.result.data.metadata.warnings) > 0

\* C17 witness: a file declared application/msword has gone to the DOCX
\* extractor and come back with the parser's text.
C17_Witness ==
  /\ Dispatched /\ call.mimetype = MSWORD
  /\ call.extractor = "extractTextFromDOCX"
  /\ call.result.success /\ call.result.data.metadata.format = "docx"
  /\ call.result.data.text = HiThere

\* invocation i has completed on a stored PDF whose OCR call answered with
\* success = true, and no database statement of it failed
OcrSucceeded(i) ==
  /\ Done(i) /\ ~pdt[i].faulted /\ Found(i)
  /\ pdt[i].ocr.kind = "body" /\ pdt[i].ocr.success
  /\ Exists(pdt[i].documentId)

\* what processDocumentText leaves stored after returning text t: the status
\* ready wherever it wrote the status last, the text t wherever its text update
\* landed last
LeavesStored(i, t) ==
  LET d == pdt[i].documentId
  IN  /\ statusWriter[d] = i => documents[d].status = "ready"
      /\ textWriter[d] = i => TextOf(d) = <<t>>

C19_PlainTextIsIdentity ==
  (call.pc = "returned" /\ call.fn = "extractTextFromTXT") =>
    /\ call.result.success
    /\ call.result.data.text = call.content
    /\ call.result.data.metadata.format = "txt"
    /\ call.content = <<>> => /\ call.result.data.metadata.wordCount = 0
                              /\ call.result.data.metadata.characterCount = 0
    /\ call.content = HiThere => /\ call.result.data.metadata.wordCount = 2
                                 /\ call.result.data.metadata.characterCount = 7

\* C19 witness: extractTextFromTXT has returned for the empty content.
C19_Witness ==
  /\ call.pc = "returned" /\ call.fn = "extractTextFromTXT"
  /\ call.content = <<>>
  /\ call.result.success /\ call.result.data.text = <<>>

\* C20: every step that changes the stored status of a document goes from
\* uploading to processing or ready, from processing to ready, or from ready to
\* processing; the last is written by a processDocumentText invocation, never
\* by createDocument.
C20_StatusTransitions ==
  [][\A d \in DocIds :
       ( /\ Exists(d) /\ documents'[d] # NoRow
         /\ documents'[d].status # documents[d].status )
       => /\ <<documents[d].status, documents'[d].status>>
               \in {<<"uploading", "processing">>, <<"uploading", "ready">>,
                    <<"processing", "ready">>, <<"ready", "processing">>}
          /\ documents[d].status = "ready" => statusWriter'[d] \in Invs]_vars

\* invocation i has made its update of the processing rows
PastMarkExtract(i) ==
  /\ pdt[i].pc \in {"setProcessing", "extract", "udwtSelect", "udwtWrite",
                    "setReady", "markSuccess", "catchReady", "done"}
  /\ Found(i) /\ ~pdt[i].faulted
\* no deleteDocument call has been made on document d
NoDelete(d) == \A k \in Dels : del[k].pc = "idle" \/ del[k].documentId # d
UploadRecord == [stage |-> "upload", status |-> "success"]

\* C21: once an invocation has recorded the extract stage, the document has a
\* processing row with stage extract beside its upload row, which still reads
\* stage upload, status success.
C21_ExtractRecordOfItsOwn ==
  \A i \in Invs :
    ( /\ PastMarkExtract(i)
      /\ Exists(pdt[i].documentId) /\ NoDelete(pdt[i].documentId)
      /\ cd[pdt[i].documentId].pc \in {"setStatus", "returned"} )
    => LET rows == processing[pdt[i].documentId]
       IN  /\ \E k \in DOMAIN rows : rows[k].stage = "extract"
           /\ \E k \in DOMAIN rows : rows[k] = UploadRecord

\* C22: after a completed invocation (alone on its document, no failed
\* statement, no delete) the rows with stage extract have status success when
\* the invocation returned an extraction result, and status failed (error in
\* the schema's words) when it ended in the catch block; none reads processing.
C22_RecordSuccessOrFailed ==
  \A i \in Invs :
    ( /\ Done(i) /\ Found(i) /\ ~pdt[i].faulted /\ Alone(i)
      /\ Exists(pdt[i].documentId) /\ NoDelete(pdt[i].documentId) )
    => \A k \in DOMAIN processing[pdt[i].documentId] :
         LET row == processing[pdt[i].documentId][k]
         IN  row.stage = "extract" =>
               IF ViaCatch(i) THEN row.status \in {"failed", "error"}
               ELSE row.status = "success"

CreationFields == {"id", "userId", "uploadPath", "fileType", "fileSize"}

\* C24: in every state the id, userId, uploadPath, fileType and fileSize of a
\* stored document are the ones its row was inserted with.
C24_CreationFieldsKept ==
  \A d \in DocIds :
    Exists(d) => \A f \in CreationFields : documents[d][f] = cd[d].document[f]

\* C24 witness: a document of non-zero size has had its status written by
\* createDocument and by an invocation, and a text stored.
C24_Witness ==
  \E d \in DocIds :
    /\ Exists(d) /\ Returned(d) /\ documents[d].fileSize > 0
    /\ textWriter[d] # 0 /\ statusWriter[d] # 0
    /\ documents[d].status = "ready"

HandedOver(i) ==
  IF pdt[i].pc \in {"setReady", "markSuccess"} THEN pdt[i].textData
  ELSE pdt[i].result.data

\* C26: in every state the stored text and the stored extraction metadata of a
\* document come from one invocation: both are those of the invocation whose
\* update landed last, and both are absent while no update has landed.
C26_TextAndMetadataTogether ==
  \A d \in DocIds :
    Exists(d) =>
      IF textWriter[d] = 0
      THEN TextOf(d) = <<>> /\ TextExtractionOf(d) = <<>>
      ELSE LET w == textWriter[d]
           IN  (pdt[w].pc \in {"setReady", "markSuccess"}
                  \/ (Done(w) /\ ~pdt[w].faulted))
               => /\ TextOf(d) = <<HandedOver(w).text>>
                  /\ TextExtractionOf(d) = <<WithExtractedAt(HandedOver(w).metadata)>>

\* C26 witness: two invocations on one document are both past their text
\* update, with different texts, and neither has finished.
C26_Witness ==
  \E i, j \in Invs :
    /\ i # j /\ pdt[i].pc = "setReady" /\ pdt[j].pc = "markSuccess"
    /\ pdt[i].documentId = pdt[j].documentId
    /\ Exists(pdt[i].documentId) /\ textWriter[pdt[i].documentId] = i
    /\ pdt[i].textData.text # pdt[j].textData.text

\* C27: in every state the metadata of a stored document has, apart from
\* textExtraction, the keys and values it was inserted with.
C27_UploadMetadataKept ==
  \A d \in DocIds :
    Exists(d) =>
      /\ DOMAIN documents[d].metadata = DOMAIN cd[d].document.metadata
      /\ \A key \in DOMAIN documents[d].metadata \ {"textExtraction"} :
           documents[d].metadata[key] = cd[d].document.metadata[key]

\* C27 witness: two invocations on one document have both stored their text
\* and metadata and returned, and the document still has its title.
C27_Witness ==
  \E i, j \in Invs :
    /\ i # j /\ Done(i) /\ Done(j) /\ Found(i) /\ Found(j)
    /\ pdt[i].documentId = pdt[j].documentId
    /\ ~pdt[i].faulted /\ ~pdt[j].faulted /\ ~ViaCatch(i) /\ ~ViaCatch(j)
    /\ Exists(pdt[i].documentId)
    /\ TextExtractionOf(pdt[i].documentId) # <<>>
    /\ documents[pdt[i].documentId].metadata.title = "t"

\* invocation i is between its write of status processing and its final
\* status write
InFlight(i) ==
  /\ pdt[i].pc \in {"extract", "udwtSelect", "udwtWrite", "setReady", "catchReady"}
  /\ Found(i) /\ ~pdt[i].faulted

\* C28: while an invocation is between its write of status processing and its
\* final status write, the stored status of its document is processing.
C28_ProcessingWhileInFlight ==
  \A i \in Invs :
    (InFlight(i) /\ Exists(pdt[i].documentId))
      => documents[pdt[i].documentId].status = "processing"

\* document d was stored and deleteDocument has removed its row
Deleted(d) == d <= nextId /\ ~Exists(d)

\* invocation i, which had found its document, completes in this step after
\* the document was deleted, with no failed statement
CompletesAfterDelete(i) ==
  /\ Found(i) /\ Deleted(pdt[i].documentId)
  /\ pdt[i].pc # "done" /\ pdt'[i].pc = "done" /\ ~pdt'[i].faulted

\* no step gives a deleted document a row or a processing row again
NothingRecreated ==
  \A d \in DocIds :
    Deleted(d) => /\ processing[d] = <<>>
                  /\ documents'[d] = NoRow /\ processing'[d] = <<>>

\* C29 (as stated): after a delete, the steps of an invocation in flight give
\* the document no row and no processing row, and the invocation completes
\* with an error-marked result.
C29_CompletesErrorMarked ==
  [][/\ NothingRecreated
     /\ \A i \in Invs :
          CompletesAfterDelete(i)
            => /\ pdt'[i].result.success
               /\ pdt'[i].result.data.metadata.format = "error"]_vars

\* C29 (amended): the same for the rows; the invocation completes with an
\* error-marked result when the delete landed before the select of
\* updateDocumentWithText or its fetch failed, and with its extraction result
\* when the delete landed later.
C29_CompletesWithoutRecreating ==
  [][/\ NothingRecreated
     /\ \A i \in Invs :
          CompletesAfterDelete(i)
            => /\ pdt'[i].result.success
               /\ IF pdt[i].pc = "markSuccess"
                  THEN pdt'[i].result.data = pdt[i].textData
                  ELSE pdt'[i].result.data.metadata.format = "error"]_vars

\* C29 witness: an invocation that had found its document has completed with
\* the error-marked result of an update that found the row gone.
C29_Witness ==
  \E i \in Invs :
    /\ Done(i) /\ Found(i) /\ ~pdt[i].faulted /\ Deleted(pdt[i].documentId)
    /\ ViaCatch(i)
    /\ pdt[i].result.data.metadata.warnings[1][2]
         = <<"Failed to update document with text: ", "Document not found">>
    /\ processing[pdt[i].documentId] = <<>>

\* the select of delete call k lands in this step
SelectLands(k) == del[k].pc = "select" /\ del'[k].pc # "select"

\* a refusal of deleteDocument: the call is over with this status and every
\* document row, processing row and stored file is as it was
Refused(k, status) ==
  /\ del'[k].pc = "done"
  /\ del'[k].result = [success |-> FALSE, status |-> status]
  /\ documents' = documents /\ processing' = processing /\ blobs' = blobs

\* C30: a deleteDocument call whose select finds no row is refused with 404,
\* and one made with a user id that is not the row's userId (any user id on a
\* document without an owner included) is refused with 403; a refused call
\* changes nothing, then and afterwards.
C30_RefusalChangesNothing ==
  [][\A k \in Dels :
       /\ (SelectLands(k) /\ ~Exists(del[k].documentId)) => Refused(k, 404)
       /\ ( /\ SelectLands(k) /\ Exists(del[k].documentId)
            /\ del[k].userId # NoUser
            /\ documents[del[k].documentId].userId # del[k].userId )
          => Refused(k, 403)
       /\ del[k].pc = "done" => del'[k] = del[k]]_vars

\* C30 witness: a call with a user id on a document without an owner has been
\* refused with 403, and the document, its processing row and its file are
\* still there.
C30_Witness ==
  \E k \in Dels :
    /\ del[k].pc = "done" /\ del[k].result = [success |-> FALSE, status |-> 403]
    /\ del[k].userId = "u1"
    /\ Exists(del[k].documentId)
    /\ documents[del[k].documentId].userId = NoUser
    /\ processing[del[k].documentId] # <<>>
    /\ blobs[del[k].documentId] # <<>>

====
